---- MODULE Spec2Model ----
(***************************************************************************)
(* Verification model of the battleship session server                     *)
(* (backend/api: game_engine.py and consumers/).                           *)
(*                                                                         *)
(* Part 1 is the in-memory rules engine (GameEngine).  Part 2 is the game  *)
(* session handler (GameConsumer) with its disconnect grace protocol, the  *)
(* per-match status hash and the game chat list of the keyed store.        *)
(***************************************************************************)
EXTENDS Integers, Sequences, FiniteSets, TLC

\* ------------------------------------------------------------------ bounds

\* Side of the square board (the code uses 10; the model scales it down).
BoardSize == 2

\* Longest ship of the scaled-down inventory: one ship of each length
\* 1..MaxShipLen (the code uses {2:1, 3:2, 4:1, 5:1}).
MaxShipLen == 2

\* Engine calls (place_ships, remove_ship, set_ready, make_move) explored per
\* game between two create_game calls.
MaxOps == 5

\* Game sessions (GameConsumer instances) each player opens in a run.
MaxOpens == 2

\* Seconds that pass in one step of the clock.
TickLen == 5

\* Seconds that pass in one step of the clock of the lobby.
LobbyTickLen == 30

\* Invite actions (invite, invite_response, invite_cancel) explored in a run.
MaxLobbyOps == 3

\* restart_game votes explored in a run.
MaxVotes == 3

\* Messages a game session may have waiting when a client action arrives.
MaxInbox == 2

\* Seconds that pass in one step of the clock of the lobby sessions.
PresenceTickLen == 15

\* Lobby sessions a user holds open at a time.
MaxTabs == 2

\* Client events of the lobby sessions (open, close, send_msg, ping)
\* explored in a run.
MaxPresenceOps == 6

\* ------------------------------------------------------------------- users

UserOrder == <<"alice", "bob", "carol">>

Users == {UserOrder[i] : i \in 1..Len(UserOrder)}

\* Position of a username in lexicographic order.
Rank(u) == CHOOSE i \in 1..Len(UserOrder) : UserOrder[i] = u

\* sorted([u, v])
Sorted2(u, v) == IF Rank(u) <= Rank(v) THEN <<u, v>> ELSE <<v, u>>

\* f"game-{player1}-{player2}": the id is modelled as the pair it names.
GameIdOf(p1, p2) == <<p1, p2>>

\* The one match the engine and session specifications exercise: the game
\* made when an invite between bob and alice is accepted.
G0 == GameIdOf(Sorted2("bob", "alice")[1], Sorted2("bob", "alice")[2])

\* The ids a game of two users can be stored under.
GameIds == {GameIdOf(Sorted2(u, v)[1], Sorted2(u, v)[2]) : u \in Users, v \in Users}

None == "None"

\* dict helpers: d[k] = v, and del d[k]
DictPut(d, k, v) == [j \in DOMAIN d \cup {k} |-> IF j = k THEN v ELSE d[j]]

DictDel(d, k) == [j \in DOMAIN d \ {k} |-> d[j]]

EmptyDict == [j \in {} |-> None]

\* The keys of a dict in insertion order: d[k] = v keeps the place of a key
\* the dict holds and puts a new key last; del d[k] takes the key out.
KeysPut(order, k) ==
    IF \E i \in 1..Len(order) : order[i] = k THEN order ELSE Append(order, k)

KeysDel(order, k) ==
    IF \E i \in 1..Len(order) : order[i] = k
    THEN LET i == CHOOSE j \in 1..Len(order) : order[j] = k
         IN SubSeq(order, 1, i - 1) \o SubSeq(order, i + 1, Len(order))
    ELSE order

VARIABLES
    games,      \* GameEngine.games: dict game_id -> game dict
    ops,        \* engine calls made on the current game (exploration budget)
    ret,        \* the value returned (or exception raised) by the last engine call
    kshash,     \* keyed store: hash <game_id>, username -> player status
    kschat,     \* keyed store: list gamechat:<game_id>
    group,      \* channel layer: sessions in the match group <game_id>
    sess,       \* the GameConsumer instances and their background tasks
    away,       \* per player: seconds since the oldest close with no open since
    hist,       \* per player: what has happened to the player so far
    invin,      \* keyed store: sets invites_incoming:<user>
    invout,     \* keyed store: sets invites_outgoing:<user>
    ttl,        \* keyed store: seconds the invite sets have left to live
    lobby,      \* per user: the invite handler of the lobby session in progress
    sent,       \* channel layer: the last invite answer sent to a user group
    age,        \* per pair: seconds since the invite was sent, -1 when none
    lops,       \* invite actions received so far (exploration budget)
    watch,      \* per pair: the sleeps left of the running schedule_invite_watch tasks
    inbox,      \* channel layer: per player, the group messages not yet handled
    voter,      \* per player: where the action_restart_game handler stands
    round,      \* rematches made so far
    told,       \* per player: new_game messages the client has been sent
    shown,      \* per player: the round of the newest game_state sent to the client
    nvotes,     \* restart_game actions received so far (exploration budget)
    opens,      \* per user: lobby sessions (LobbyConsumer instances) now open
    roster,     \* keyed store: the set lobby_users
    online,     \* keyed store: seconds the key online_<user> has left, 0 when gone
    chatlist,   \* keyed store: the chat lists <p1>_<p2> that exist
    chatidx,    \* keyed store: the sets lobby_chats:<user>
    cleanup,    \* per user: the sleeps left of the pending cleanup_lobby_chat tasks
    pops,       \* lobby session events so far (exploration budget)
    gorder,     \* GameEngine.games: the game ids in the order the dict holds them
    ingame,     \* per user: what the lobby session last did about in_game
    writer      \* per caller of GameService.set_status: the status it has read

sessionVars == <<kshash, kschat, group, sess, away, hist>>

lobbyVars == <<invin, invout, ttl, lobby, sent, age, lops, watch>>

rematchVars == <<inbox, voter, round, told, shown, nvotes>>

\* What the engine, the game sessions and the invites leave alone.
presenceVars == <<opens, roster, online, chatlist, chatidx, cleanup, pops>>

\* The order of the engine's dict, the in_game notices, the status writers.
moreVars == <<gorder, ingame, writer>>

restVars == <<rematchVars, presenceVars, moreVars>>

\* ------------------------------------------------------------ engine: data

Rows == 0..(BoardSize - 1)

\* Arguments the engine specification draws for a column: the first two
\* columns, -1 (Python counts it from the end) and the first index past the
\* board.  Rows are drawn from RowArgs.
ColArgs == {-1, 0, 1, BoardSize}

RowArgs == {0}

\* Start cells of place_ships and cells named to remove_ship.
StartCols == {0, 1}

\* Python list indexing: indices -len..len-1 are valid, negative ones count
\* from the end; anything else raises IndexError.
ValidIdx(i) == i >= -BoardSize /\ i < BoardSize

NormIdx(i) == IF i < 0 THEN i + BoardSize ELSE i

ValidCell(c) == ValidIdx(c[1]) /\ ValidIdx(c[2])

\* grid[y][x] for a coordinate pair c = (x, y)
GridGet(grid, c) == grid[NormIdx(c[2])][NormIdx(c[1])]

GridPut(grid, c, v) == [grid EXCEPT ![NormIdx(c[2])][NormIdx(c[1])] = v]

create_empty_board == [y \in Rows |-> [x \in Rows |-> ""]]

ShipLens == 1..MaxShipLen

ships_init == [l \in ShipLens |-> 1]

\* Lengths a client may ask for: the inventory's and one that is no key of it.
LenArgs == 1..(MaxShipLen + 1)

Orientations == {"horizontal", "vertical"}

Enemy(game, player) ==
    IF game.players[1] # player THEN game.players[1] ELSE game.players[2]

PlayerSet(game) == {game.players[1], game.players[2]}

NewGame(player1, player2, first) ==
    [ players      |-> <<player1, player2>>,
      boards       |-> [p \in {player1, player2} |-> create_empty_board],
      hits         |-> [p \in {player1, player2} |-> create_empty_board],
      ships_left   |-> [p \in {player1, player2} |-> ships_init],
      placed_ships |-> [p \in {player1, player2} |-> <<>>],
      ready        |-> [p \in {player1, player2} |-> FALSE],
      turn         |-> first,
      winner       |-> None ]

Ret(op, player, result, access) ==
    [op |-> op, player |-> player, result |-> result, access |-> access]

NoRet == Ret("none", None, "none", "none")

\* ------------------------------------------------------ engine: operations

\* for i in range(length): coords.append(...)
ShipCoords(x_start, y_start, length, orientation) ==
    [i \in 1..length |->
        IF orientation = "horizontal"
        THEN <<x_start + (i - 1), y_start>>
        ELSE <<x_start, y_start + (i - 1)>>]

\* for x, y in coords: board[y][x] = "S"  -- stops at the first coordinate
\* that raises IndexError, keeping the cells already written.
RECURSIVE PaintShip(_, _, _)
PaintShip(board, coords, i) ==
    IF i > Len(coords) \/ ~ValidCell(coords[i])
    THEN board
    ELSE PaintShip(GridPut(board, coords[i], "S"), coords, i + 1)

AllValid(coords) == \A i \in 1..Len(coords) : ValidCell(coords[i])

\* GameEngine.place_ships on an existing game: <<game', return value>>
place_ships(game, player, x_start, y_start, length, orientation) ==
    IF length \notin DOMAIN game.ships_left[player]
    THEN <<game, Ret("place_ships", player, "KeyError", "none")>>
    ELSE IF game.ships_left[player][length] = 0
    THEN <<game, Ret("place_ships", player, "NO MORE SHIPS OF LENGTH AVAILABLE", "private")>>
    ELSE
      LET coords  == ShipCoords(x_start, y_start, length, orientation)
          painted == PaintShip(game.boards[player], coords, 1)
      IN  IF ~AllValid(coords)
          THEN <<[game EXCEPT !.boards[player] = painted],
                 Ret("place_ships", player, "IndexError", "none")>>
          ELSE <<[game EXCEPT
                    !.boards[player] = painted,
                    !.placed_ships[player] =
                        Append(@, [coords |-> coords, sunk |-> FALSE]),
                    !.ships_left[player][length] = @ - 1],
                 Ret("place_ships", player, "SHIP PLACED", "private")>>

InCoords(c, coords) == \E i \in 1..Len(coords) : coords[i] = c

\* Index of the first ship whose coords hold (x, y), 0 when none does.
FirstShipAt(ships, c) ==
    IF \E k \in 1..Len(ships) : InCoords(c, ships[k].coords)
    THEN CHOOSE k \in 1..Len(ships) :
            /\ InCoords(c, ships[k].coords)
            /\ \A j \in 1..(k - 1) : ~InCoords(c, ships[j].coords)
    ELSE 0

RemoveAt(s, k) == SubSeq(s, 1, k - 1) \o SubSeq(s, k + 1, Len(s))

\* ships.remove(ship): list.remove drops the first element equal to it.
FirstEqual(ships, ship) ==
    CHOOSE k \in 1..Len(ships) :
        ships[k] = ship /\ \A j \in 1..(k - 1) : ships[j] # ship

RECURSIVE ClearShip(_, _, _)
ClearShip(board, coords, i) ==
    IF i > Len(coords)
    THEN board
    ELSE ClearShip(GridPut(board, coords[i], ""), coords, i + 1)

\* Variant of Returned that hands back two ships for one removed.
ReturnedTwice(n) == n + 2

\* ships_left[len(ship_to_remove["coords"])] += 1
Returned(n) == n + 1

\* GameEngine.remove_ship on an existing game
remove_ship(game, player, x, y) ==
    LET ships == game.placed_ships[player]
        k     == FirstShipAt(ships, <<x, y>>)
    IN  IF k # 0
        THEN LET ship == ships[k]
             IN <<[game EXCEPT
                     !.boards[player] = ClearShip(@, ship.coords, 1),
                     !.placed_ships[player] = RemoveAt(@, FirstEqual(ships, ship)),
                     !.ships_left[player][Len(ship.coords)] = Returned(@)],
                  Ret("remove_ship", player, "SHIP REMOVED", "private")>>
        ELSE <<game, Ret("remove_ship", player, "NO SHIP FOUND AT CHOSEN POSITION", "private")>>

\* Variant of ShipsToPlace that never finds a ship still to place.
ShipsToPlaceNone(game, player) == FALSE

\* any(count > 0 for count in game["ships_left"][player].values())
ShipsToPlace(game, player) ==
    \E l \in DOMAIN game.ships_left[player] : game.ships_left[player][l] > 0

\* GameEngine.set_ready on an existing game
set_ready(game, player) ==
    IF ShipsToPlace(game, player)
    THEN <<game, Ret("set_ready", player, "YOU MUST PLACE ALL SHIPS FIRST", "private")>>
    ELSE <<[game EXCEPT !.ready[player] = TRUE],
           Ret("set_ready", player, "IS READY", "public")>>

AllHit(hit_board, coords) ==
    \A i \in 1..Len(coords) : GridGet(hit_board, coords[i]) = "X"

AllSunk(ships) == \A k \in 1..Len(ships) : ships[k].sunk

\* Variant of NextTurn that leaves the turn with the shooter.
NextTurnKept(game, player) == player

\* game["turn"] = enemy
NextTurn(game, player) == Enemy(game, player)

\* Variant of AlreadyShot that never finds a cell shot.
AlreadyShotNever(hit_board, c) == FALSE

\* hit_board[y][x] != ""
AlreadyShot(hit_board, c) == GridGet(hit_board, c) # ""

\* Variant of MarkSunk that starts the marks over when one is already set.
MarkSunkReset(ships, k) ==
    IF \E j \in 1..Len(ships) : ships[j].sunk
    THEN [j \in 1..Len(ships) |-> [ships[j] EXCEPT !.sunk = FALSE]]
    ELSE [ships EXCEPT ![k].sunk = TRUE]

\* ship["sunk"] = True
MarkSunk(ships, k) == [ships EXCEPT ![k].sunk = TRUE]

\* Variant of NewWinner that forgets the winner when the shot does not win.
NewWinnerCleared(game, player, wins) == IF wins THEN player ELSE None

\* if all(s["sunk"] ...): game["winner"] = player
NewWinner(game, player, wins) == IF wins THEN player ELSE game.winner

\* GameEngine.make_move on an existing game
make_move(game, player, x, y) ==
    LET enemy     == Enemy(game, player)
        hit_board == game.hits[player]
        c         == <<x, y>>
    IN  IF ~ValidCell(c)
        THEN <<game, Ret("make_move", player, "IndexError", "none")>>
        ELSE IF AlreadyShot(hit_board, c)
        THEN <<game, Ret("make_move", player,
                         "ALREADY SHOT THIS POSITION - CHOOSE ANOTHER", "private")>>
        ELSE IF GridGet(game.boards[enemy], c) = "S"
        THEN LET hb    == GridPut(hit_board, c, "X")
                 ships == game.placed_ships[enemy]
                 k     == FirstShipAt(ships, c)
                 sinks == k # 0 /\ AllHit(hb, ships[k].coords)
                 ships2 == IF sinks THEN MarkSunk(ships, k) ELSE ships
                 wins  == sinks /\ AllSunk(ships2)
             IN <<[game EXCEPT
                     !.hits[player] = hb,
                     !.placed_ships[enemy] = ships2,
                     !.winner = NewWinner(game, player, wins),
                     !.turn = NextTurn(game, player)],
                  Ret("make_move", player,
                      IF wins THEN "GAME OVER WON"
                      ELSE IF sinks THEN "SUNK ENEMY SHIP"
                      ELSE "LANDED A HIT", "public")>>
        ELSE <<[game EXCEPT
                  !.hits[player] = GridPut(hit_board, c, "O"),
                  !.turn = NextTurn(game, player)],
               Ret("make_move", player, "MISSED", "public")>>

\* GameEngine.get_game_state on an existing game: the dict sent to player
get_game_state(game, player) ==
    LET enemy == Enemy(game, player)
    IN [ players               |-> game.players,
         self                  |-> player,
         own_board             |-> game.boards[player],
         opponent_board        |-> game.boards[enemy],
         hits                  |-> game.hits[player],
         opponent_hits         |-> game.hits[enemy],
         placed_ships          |-> game.placed_ships[player],
         opponent_placed_ships |-> game.placed_ships[enemy],
         ships_left            |-> game.ships_left[player],
         ready                 |-> game.ready[player],
         opponent_ready        |-> game.ready[enemy],
         turn                  |-> game.turn,
         winner                |-> game.winner ]

\* --------------------------------------------------------- engine: actions

\* GameEngine.create_game; random.choice picks who moves first.
CreateGame(g, first) ==
    /\ first \in {g[1], g[2]}
    /\ games' = DictPut(games, g, NewGame(g[1], g[2], first))
    /\ gorder' = KeysPut(gorder, g)
    /\ ret' = Ret("create_game", None, "none", "none")
    /\ ops' = 0
    /\ UNCHANGED sessionVars
    /\ UNCHANGED lobbyVars
    /\ UNCHANGED <<rematchVars, presenceVars, ingame, writer>>

\* An engine call: get_game raises KeyError on a game_id the engine does not
\* hold; otherwise r is the pair <<game', return value>> the call computes.
EngineCall(g, player, r) ==
    /\ ops < MaxOps
    /\ ops' = ops + 1
    /\ UNCHANGED sessionVars
    /\ IF g \notin DOMAIN games
       THEN /\ ret' = Ret("get_game", player, "KeyError", "none")
            /\ UNCHANGED games
       ELSE /\ games' = [games EXCEPT ![g] = r[1]]
            /\ ret' = r[2]
    /\ UNCHANGED lobbyVars
    /\ UNCHANGED restVars

PlaceShips(g, player, x, y, length, orientation) ==
    EngineCall(g, player, place_ships(games[g], player, x, y, length, orientation))

RemoveShip(g, player, x, y) ==
    EngineCall(g, player, remove_ship(games[g], player, x, y))

SetReady(g, player) ==
    EngineCall(g, player, set_ready(games[g], player))

MakeMove(g, player, x, y) ==
    EngineCall(g, player, make_move(games[g], player, x, y))

\* GameEngine.end_game
EndGame(g) ==
    /\ games' = DictDel(games, g)
    /\ gorder' = KeysDel(gorder, g)
    /\ ret' = Ret("end_game", None, "none", "none")
    /\ ops' = 0
    /\ UNCHANGED sessionVars
    /\ UNCHANGED lobbyVars
    /\ UNCHANGED <<rematchVars, presenceVars, ingame, writer>>

EngineInit ==
    /\ games = EmptyDict
    /\ gorder = <<>>
    /\ ret = NoRet
    /\ ops = 0

\* ------------------------------------------------- game sessions: the data

\* asyncio.sleep(10) in GameConsumer.delayed_leave
GRACE == 10

SessionUsers == {G0[1], G0[2]}

\* One slot per GameConsumer instance; a player's instances are numbered in
\* the order they are opened.
Slots == {<<u, k>> : u \in SessionUsers, k \in 1..MaxOpens}

DefaultStatus ==
    [temp_disconnect |-> FALSE, full_disconnect |-> FALSE, restart |-> FALSE]

\* GameService.get_player_status; <<>> stands for None, <<v>> for a value.
get_player_status(g, u) ==
    IF u \in DOMAIN kshash[g] THEN <<kshash[g][u]>> ELSE <<>>

\* RedisService.set_hash
set_hash(h, g, u, v) == [h EXCEPT ![g] = DictPut(@, u, v)]

\* GameService.all_status_true: all(...) over the fields the hash holds
all_status_true(g, key) == \A u \in DOMAIN kshash[g] : kshash[g][u][key]

LeftMsg(u) ==
    [from |-> u, msg_type |-> "system", msg |-> "HAS LEFT THE GAME",
     access |-> "public"]

FreshSession ==
    [pc |-> "free", conn |-> FALSE, player |-> FALSE, st |-> <<>>,
     all |-> FALSE, timer |-> 0]

FreshHist ==
    [abandoned |-> FALSE, sent_leave |-> FALSE, handled |-> 0, left_posts |-> 0]

\* Program points at which a handler or task has a step to take now.
RunningPcs ==
    {"c_init", "c_check", "c_settemp", "l_write", "d_write", "t_start",
     "t_decide", "t_recheck", "t_setfull", "h_begin", "h_decide",
     "h_delhash", "h_end"}

\* Some handler or woken task has a step to take now.
Busy == \E s \in Slots :
            \/ sess[s].pc \in RunningPcs
            \/ sess[s].pc = "t_sleep" /\ sess[s].timer = 0

\* Client events (open, close, leave_game) arrive while the server is idle:
\* every handler and every woken task has run to its end or to its sleep.
\* Tasks woken by the same tick still interleave with each other.
Quiet == ~Busy

SessionInit ==
    /\ kshash = [g \in GameIds |-> EmptyDict]
    /\ kschat = [g \in GameIds |-> <<>>]
    /\ group = {}
    /\ sess = [s \in Slots |-> FreshSession]
    /\ away = [u \in SessionUsers |-> -1]
    /\ hist = [u \in SessionUsers |-> FreshHist]

\* ---------------------------------------------- game sessions: connect

\* A session at program point pc holding the status record st it last read;
\* fields a program point does not use are kept at their defaults.
At(pc, conn, st) == [FreshSession EXCEPT !.pc = pc, !.conn = conn, !.st = st]

HasFree(u) == \E k \in 1..MaxOpens : sess[<<u, k>>].pc = "free"

NextSlot(u) ==
    <<u, CHOOSE k \in 1..MaxOpens :
            /\ sess[<<u, k>>].pc = "free"
            /\ \A j \in 1..(k - 1) : sess[<<u, j>>].pc # "free">>

\* A client opens ws/game/<game_id>/: connect runs up to its first read of
\* the status hash.  get_game raises KeyError when the engine has no such
\* game, which ends the instance before the socket is accepted.
Open(u) ==
    /\ Quiet
    /\ HasFree(u)
    /\ LET s == NextSlot(u)
       IN IF G0 \notin DOMAIN games
          THEN /\ sess' = [sess EXCEPT ![s] = At("dead", FALSE, <<>>)]
               /\ UNCHANGED away
          ELSE /\ sess' = [sess EXCEPT ![s] =
                    [At(IF get_player_status(G0, u) = <<>> THEN "c_init" ELSE "c_check",
                        FALSE, get_player_status(G0, u))
                     EXCEPT !.player = u \in PlayerSet(games[G0])]]
               /\ away' = [away EXCEPT ![u] = -1]
    /\ UNCHANGED <<kshash, kschat, group, hist, games, ops, ret>>
    /\ UNCHANGED lobbyVars
    /\ UNCHANGED restVars

\* GameService.init_player_status
ConnInit(s) ==
    /\ sess[s].pc = "c_init"
    /\ kshash' = set_hash(kshash, G0, s[1], DefaultStatus)
    /\ sess' = [sess EXCEPT ![s].pc = "c_check", ![s].st = <<DefaultStatus>>]
    /\ UNCHANGED <<kschat, group, away, hist, games, ops, ret>>
    /\ UNCHANGED lobbyVars
    /\ UNCHANGED restVars

\* Whether connect lets the session in (the negation of the close(4000) test).
Admitted(isPlayer, status) == isPlayer /\ ~status.full_disconnect

\* accept, the admission test, group_add and the read of set_temp_disconnect
ConnCheck(s) ==
    /\ sess[s].pc = "c_check"
    /\ IF Admitted(sess[s].player, sess[s].st[1])
       THEN /\ sess' = [sess EXCEPT ![s] =
                 At("c_settemp", TRUE, get_player_status(G0, s[1]))]
            /\ group' = group \cup {s}
       ELSE /\ sess' = [sess EXCEPT ![s] = At("rejected", FALSE, <<>>)]
            /\ UNCHANGED group
    /\ UNCHANGED <<kshash, kschat, away, hist, games, ops, ret>>
    /\ UNCHANGED lobbyVars
    /\ UNCHANGED restVars

\* GameService.set_status writes back the record it read with one key
\* changed; on a record that is None the assignment raises TypeError.
SetStatusWrite(s, key, value, nextPc) ==
    IF sess[s].st = <<>>
    THEN /\ sess' = [sess EXCEPT ![s] = At("dead", sess[s].conn, <<>>)]
         /\ UNCHANGED kshash
    ELSE /\ kshash' = set_hash(kshash, G0, s[1], [sess[s].st[1] EXCEPT ![key] = value])
         /\ sess' = [sess EXCEPT ![s] = At(nextPc, sess[s].conn, <<>>)]

\* the write of set_temp_disconnect(False); the session is then open
ConnSetTemp(s) ==
    /\ sess[s].pc = "c_settemp"
    /\ SetStatusWrite(s, "temp_disconnect", FALSE, "open")
    /\ UNCHANGED <<kschat, group, away, hist, games, ops, ret>>
    /\ UNCHANGED lobbyVars
    /\ UNCHANGED restVars

\* ------------------------------------------- game sessions: leave_game

\* action_leave_game: the read of set_full_disconnect(True)
LeaveRead(s) ==
    /\ Quiet
    /\ sess[s].pc = "open"
    /\ sess' = [sess EXCEPT ![s] = At("l_write", TRUE, get_player_status(G0, s[1]))]
    /\ hist' = [hist EXCEPT ![s[1]].sent_leave = TRUE]
    /\ UNCHANGED <<kshash, kschat, group, away, games, ops, ret>>
    /\ UNCHANGED lobbyVars
    /\ UNCHANGED restVars

LeaveWrite(s) ==
    /\ sess[s].pc = "l_write"
    /\ SetStatusWrite(s, "full_disconnect", TRUE, "open")
    /\ UNCHANGED <<kschat, group, away, hist, games, ops, ret>>
    /\ UNCHANGED lobbyVars
    /\ UNCHANGED restVars

\* ------------------------------------ game sessions: disconnect and grace

\* The socket closes: disconnect runs up to the read of
\* set_temp_disconnect(True).  Only a session that joined gets here with
\* connected_to_game set.
Close(s) ==
    /\ Quiet
    /\ sess[s].pc = "open"
    /\ sess[s].conn
    /\ sess' = [sess EXCEPT ![s] = At("d_write", TRUE, get_player_status(G0, s[1]))]
    /\ away' = [away EXCEPT ![s[1]] = IF @ < 0 THEN 0 ELSE @]
    /\ UNCHANGED <<kshash, kschat, group, hist, games, ops, ret>>
    /\ UNCHANGED lobbyVars
    /\ UNCHANGED restVars

\* the write of set_temp_disconnect(True), then create_task(delayed_leave)
DiscWrite(s) ==
    /\ sess[s].pc = "d_write"
    /\ SetStatusWrite(s, "temp_disconnect", TRUE, "t_start")
    /\ UNCHANGED <<kschat, group, away, hist, games, ops, ret>>
    /\ UNCHANGED lobbyVars
    /\ UNCHANGED restVars

\* delayed_leave: first read of the status
TaskStart(s) ==
    /\ sess[s].pc = "t_start"
    /\ sess' = [sess EXCEPT ![s] = At("t_decide", TRUE, get_player_status(G0, s[1]))]
    /\ UNCHANGED <<kshash, kschat, group, away, hist, games, ops, ret>>
    /\ UNCHANGED lobbyVars
    /\ UNCHANGED restVars

\* status["full_disconnect"] on None raises TypeError and ends the task;
\* otherwise full-disconnect handling at once, or asyncio.sleep(10).
TaskDecide(s) ==
    /\ sess[s].pc = "t_decide"
    /\ sess' = [sess EXCEPT ![s] =
          IF sess[s].st = <<>> THEN At("dead", TRUE, <<>>)
          ELSE IF sess[s].st[1].full_disconnect THEN At("h_begin", TRUE, <<>>)
          ELSE [At("t_sleep", TRUE, <<>>) EXCEPT !.timer = GRACE]]
    /\ UNCHANGED <<kshash, kschat, group, away, hist, games, ops, ret>>
    /\ UNCHANGED lobbyVars
    /\ UNCHANGED restVars

\* the sleep is over: second read of the status
TaskWake(s) ==
    /\ sess[s].pc = "t_sleep"
    /\ sess[s].timer = 0
    /\ sess' = [sess EXCEPT ![s] = At("t_recheck", TRUE, get_player_status(G0, s[1]))]
    /\ UNCHANGED <<kshash, kschat, group, away, hist, games, ops, ret>>
    /\ UNCHANGED lobbyVars
    /\ UNCHANGED restVars

\* What the woken task does with the status it read.
AfterGrace(status) == IF status.temp_disconnect THEN "t_setfull" ELSE "done"

\* if status["temp_disconnect"]: the read of set_full_disconnect(True)
TaskRecheck(s) ==
    /\ sess[s].pc = "t_recheck"
    /\ sess' = [sess EXCEPT ![s] =
          IF sess[s].st = <<>> THEN At("dead", TRUE, <<>>)
          ELSE IF AfterGrace(sess[s].st[1]) = "t_setfull"
          THEN At("t_setfull", TRUE, get_player_status(G0, s[1]))
          ELSE At(AfterGrace(sess[s].st[1]), TRUE, <<>>)]
    /\ UNCHANGED <<kshash, kschat, group, away, hist, games, ops, ret>>
    /\ UNCHANGED lobbyVars
    /\ UNCHANGED restVars

\* the write of set_full_disconnect(True)
TaskSetFull(s) ==
    /\ sess[s].pc = "t_setfull"
    /\ SetStatusWrite(s, "full_disconnect", TRUE, "h_begin")
    /\ UNCHANGED <<kschat, group, away, hist, games, ops, ret>>
    /\ UNCHANGED lobbyVars
    /\ UNCHANGED restVars

\* handle_full_disconnect: group_discard, create_task(cleanup_lobby_chat)
\* and the read of all_status_true
HandleBegin(s) ==
    /\ sess[s].pc = "h_begin"
    /\ group' = group \ {s}
    /\ sess' = [sess EXCEPT ![s] =
          [At("h_decide", TRUE, <<>>) EXCEPT !.all = all_status_true(G0, "full_disconnect")]]
    /\ hist' = [hist EXCEPT ![s[1]].handled = @ + 1]
    /\ UNCHANGED <<kshash, kschat, away, games, ops, ret>>
    /\ UNCHANGED lobbyVars
    /\ UNCHANGED restVars

\* Either ChatService.delete_chat, or push_message("... HAS LEFT THE GAME")
\* followed by the game.update broadcast.
HandleDecide(s) ==
    /\ sess[s].pc = "h_decide"
    /\ IF sess[s].all
       THEN /\ kschat' = [kschat EXCEPT ![G0] = <<>>]
            /\ sess' = [sess EXCEPT ![s] = At("h_delhash", TRUE, <<>>)]
            /\ UNCHANGED hist
       ELSE /\ kschat' = [kschat EXCEPT ![G0] = Append(@, LeftMsg(s[1]))]
            /\ sess' = [sess EXCEPT ![s] = At("done", TRUE, <<>>)]
            /\ hist' = [hist EXCEPT ![s[1]].left_posts = @ + 1]
    /\ UNCHANGED <<kshash, group, away, games, ops, ret>>
    /\ UNCHANGED lobbyVars
    /\ UNCHANGED restVars

\* GameService.delete_game_status
HandleDelHash(s) ==
    /\ sess[s].pc = "h_delhash"
    /\ kshash' = [kshash EXCEPT ![G0] = EmptyDict]
    /\ sess' = [sess EXCEPT ![s].pc = "h_end"]
    /\ UNCHANGED <<kschat, group, away, hist, games, ops, ret>>
    /\ UNCHANGED lobbyVars
    /\ UNCHANGED restVars

\* game_engine.end_game, run when delete_game_status has returned.  The
\* match is over: the counts kept in hist start again for the next one.
HandleEnd(s) ==
    /\ sess[s].pc = "h_end"
    /\ games' = DictDel(games, G0)
    /\ gorder' = KeysDel(gorder, G0)
    /\ sess' = [sess EXCEPT ![s].pc = "done"]
    /\ hist' = [u \in SessionUsers |->
                  [hist[u] EXCEPT !.handled = 0, !.left_posts = 0]]
    /\ UNCHANGED <<ops, ret, kshash, kschat, group, away>>
    /\ UNCHANGED lobbyVars
    /\ UNCHANGED <<rematchVars, presenceVars, ingame, writer>>

\* ------------------------------------------------------------- the clock

Max0(n) == IF n < 0 THEN 0 ELSE n

\* TickLen seconds pass.  Handlers and woken tasks run to completion in far
\* less than that, so the clock moves only when none has a step to take.
Tick ==
    /\ ~Busy
    /\ sess' = [s \in Slots |->
                  IF sess[s].pc = "t_sleep"
                  THEN [sess[s] EXCEPT !.timer = Max0(@ - TickLen)]
                  ELSE sess[s]]
    /\ away' = [u \in SessionUsers |->
                  IF away[u] < 0 THEN away[u]
                  ELSE IF away[u] + TickLen >= GRACE THEN GRACE
                  ELSE away[u] + TickLen]
    /\ hist' = [u \in SessionUsers |->
                  [hist[u] EXCEPT !.abandoned =
                      @ \/ (away[u] >= 0 /\ away[u] + TickLen >= GRACE)]]
    /\ UNCHANGED <<kshash, kschat, group, games, ops, ret>>
    /\ UNCHANGED lobbyVars
    /\ UNCHANGED restVars

\* ------------------------------------------------------ lobby: invites

\* ex=60 in InviteService.add_invite
INVITE_TTL == 60

\* The keys invites_incoming:<u> and invites_outgoing:<u>
InviteKeys == {<<side, u>> : side \in {"in", "out"}, u \in Users}

\* (username, data["to"]) or (username, data["from"]): the handlers take any
\* name the client sends, the user's own included.
Pairs == Users \X Users

Answers == {"accepted", "declined"}

\* found: whether the SREM on invites_incoming:<self> took the invite out
\* (the result of srem, which remove_from_set drops).
IdleHandler == [pc |-> "idle", peer |-> None, status |-> None, found |-> FALSE]

Handler(pc, peer, status) ==
    [pc |-> pc, peer |-> peer, status |-> status, found |-> FALSE]

InviteMsg(to, type, from) == [to |-> to, type |-> type, from |-> from]

LobbyInit ==
    /\ invin = [u \in Users |-> {}]
    /\ invout = [u \in Users |-> {}]
    /\ ttl = [k \in InviteKeys |-> 0]
    /\ lobby = [u \in Users |-> IdleHandler]
    /\ sent = InviteMsg(None, "none", None)
    /\ age = [p \in Pairs |-> -1]
    /\ lops = 0
    /\ watch = [p \in Pairs |-> {}]

\* RedisService.add_to_set(key, value, ex): SADD, then EXPIRE key ex
add_to_set(sets, u, value) == [sets EXCEPT ![u] = @ \cup {value}]

\* An SREM that takes nothing out of the set.
remove_from_set_noop(sets, u, value) == sets

\* RedisService.remove_from_set(key, value): SREM
remove_from_set(sets, u, value) == [sets EXCEPT ![u] = @ \ {value}]

\* The time a key has left after an SREM: a set that became empty is gone.
TtlAfterRemove(sets, u, value, left) == IF sets[u] \ {value} = {} THEN 0 ELSE left

\* asyncio.sleep(60) and asyncio.sleep(5) in schedule_invite_watch
WATCH_DELAY == 60

WATCH_POLL == 5

\* A woken watcher has its poll to make.
WatchDue == \E p \in Pairs : 0 \in watch[p]

\* No invite handler is mid-way.  Client actions (invite, invite_response,
\* invite_cancel) arrive while the server is idle, one at a time.
LobbyIdle == \A u \in Users : lobby[u].pc = "idle"

\* A client action arrives.
Arrives == LobbyIdle /\ lops < MaxLobbyOps /\ lops' = lops + 1

\* action_invite: InviteService.add_invite, the incoming side
Invite(u, v) ==
    /\ Arrives
    /\ invin' = add_to_set(invin, v, u)
    /\ ttl' = [ttl EXCEPT ![<<"in", v>>] = INVITE_TTL]
    /\ lobby' = [lobby EXCEPT ![u] = Handler("i_out", v, None)]
    /\ age' = [age EXCEPT ![<<u, v>>] = 0]
    /\ UNCHANGED <<invout, sent, games, ops, ret, sessionVars, restVars>>
    /\ UNCHANGED watch

\* action_invite: InviteService.add_invite, the outgoing side, then
\* create_task(schedule_invite_watch(username, to_user))
InviteOut(u) ==
    /\ lobby[u].pc = "i_out"
    /\ invout' = add_to_set(invout, u, lobby[u].peer)
    /\ ttl' = [ttl EXCEPT ![<<"out", u>>] = INVITE_TTL]
    /\ watch' = [watch EXCEPT ![<<u, lobby[u].peer>>] = @ \cup {WATCH_DELAY}]
    /\ lobby' = [lobby EXCEPT ![u] = IdleHandler]
    /\ UNCHANGED <<invin, sent, age, games, ops, ret, sessionVars, restVars>>
    /\ UNCHANGED lops

\* InviteService.remove_invite(from_user, to_user), the incoming side
RemoveIncoming(from_user, to_user) ==
    /\ invin' = remove_from_set(invin, to_user, from_user)
    /\ ttl' = [ttl EXCEPT ![<<"in", to_user>>] =
                  TtlAfterRemove(invin, to_user, from_user, @)]
    /\ age' = [age EXCEPT ![<<from_user, to_user>>] = -1]

\* InviteService.remove_invite(from_user, to_user), the outgoing side
RemoveOutgoing(from_user, to_user) ==
    /\ invout' = remove_from_set(invout, from_user, to_user)
    /\ ttl' = [ttl EXCEPT ![<<"out", from_user>>] =
                  TtlAfterRemove(invout, from_user, to_user, @)]

\* action_invite_response by u to the invite of from_user
Respond(u, from_user, status) ==
    /\ Arrives
    /\ RemoveIncoming(from_user, u)
    /\ lobby' = [lobby EXCEPT ![u] =
          [Handler("r_out", from_user, status) EXCEPT !.found = from_user \in invin[u]]]
    /\ UNCHANGED <<invout, sent, games, ops, ret, sessionVars, restVars>>
    /\ UNCHANGED watch

RespondOut(u) ==
    /\ lobby[u].pc = "r_out"
    /\ RemoveOutgoing(lobby[u].peer, u)
    /\ lobby' = [lobby EXCEPT ![u].pc = "r_send"]
    /\ UNCHANGED <<invin, sent, age, games, ops, ret, sessionVars, restVars>>
    /\ UNCHANGED watch
    /\ UNCHANGED lops

\* No game id: what find_game_id returns when it finds no game.
NoGameId == <<>>

\* What the lobby sessions of a user did about in_game on the last open or
\* send.in.game: nothing, the in_game message sent to the client, or the
\* exception raised; n counts the opens and send.in.game handled so far.
Notice(type, game_id, n) == [type |-> type, game_id |-> game_id, n |-> n]

NoNotice == Notice("none", NoGameId, 0)

\* The group message of action_invite_response to user_<self>
InGameEvent == [type |-> "send.in.game"]

\* LobbyConsumer.send_in_game(self, game_id, event), called with the
\* positional arguments args: a call that does not bind both parameters
\* raises TypeError, a call that does sends in_game with its game_id.
send_in_game(args, n) ==
    IF Len(args) = 2 THEN Notice("in_game", args[1], n)
    ELSE Notice("TypeError", NoGameId, n)

\* The consumer's dispatch of a group message: handler(message)
Dispatch(message, n) == send_in_game(<<message>>, n)

\* status == "accepted": group_send(send.invite.accepted), then
\* game_engine.create_game for the sorted pair, then
\* group_send(send.in.game) to user_<self>, which the session handles
RespondAccepted(u, first) ==
    /\ lobby[u].pc = "r_send"
    /\ lobby[u].status = "accepted"
    /\ LET pair == Sorted2(lobby[u].peer, u)
       IN /\ first \in {pair[1], pair[2]}
          /\ games' = DictPut(games, GameIdOf(pair[1], pair[2]),
                              NewGame(pair[1], pair[2], first))
          /\ gorder' = KeysPut(gorder, GameIdOf(pair[1], pair[2]))
    /\ sent' = InviteMsg(lobby[u].peer, "invite_accepted", u)
    /\ ingame' = [ingame EXCEPT ![u] = Dispatch(InGameEvent, @.n + 1)]
    /\ ret' = Ret("create_game", None, "none", "none")
    /\ ops' = 0
    /\ lobby' = [lobby EXCEPT ![u] = IdleHandler]
    /\ UNCHANGED <<invin, invout, ttl, age, sessionVars, rematchVars, presenceVars>>
    /\ UNCHANGED writer
    /\ UNCHANGED watch
    /\ UNCHANGED lops

\* status == "declined": group_send(send.invite.declined)
RespondDeclined(u) ==
    /\ lobby[u].pc = "r_send"
    /\ lobby[u].status = "declined"
    /\ sent' = InviteMsg(lobby[u].peer, "invite_declined", u)
    /\ lobby' = [lobby EXCEPT ![u] = IdleHandler]
    /\ UNCHANGED <<invin, invout, ttl, age, games, ops, ret, sessionVars, restVars>>
    /\ UNCHANGED watch
    /\ UNCHANGED lops

\* action_invite_cancel by u of the invite to v
Cancel(u, v) ==
    /\ Arrives
    /\ RemoveIncoming(u, v)
    /\ lobby' = [lobby EXCEPT ![u] = Handler("c_out", v, None)]
    /\ UNCHANGED <<invout, sent, games, ops, ret, sessionVars, restVars>>
    /\ UNCHANGED watch

CancelOut(u) ==
    /\ lobby[u].pc = "c_out"
    /\ RemoveOutgoing(u, lobby[u].peer)
    /\ lobby' = [lobby EXCEPT ![u] = IdleHandler]
    /\ UNCHANGED <<invin, sent, age, games, ops, ret, sessionVars, restVars>>
    /\ UNCHANGED watch
    /\ UNCHANGED lops

\* LobbyTickLen seconds pass: the keyed store drops the keys whose time is up.
LobbyTick ==
    /\ LobbyIdle
    /\ ~WatchDue
    /\ ttl' = [k \in InviteKeys |-> Max0(ttl[k] - LobbyTickLen)]
    /\ invin' = [u \in Users |->
                   IF ttl[<<"in", u>>] - LobbyTickLen <= 0 THEN {} ELSE invin[u]]
    /\ invout' = [u \in Users |->
                   IF ttl[<<"out", u>>] - LobbyTickLen <= 0 THEN {} ELSE invout[u]]
    /\ age' = [p \in Pairs |->
                   IF age[p] < 0 THEN age[p]
                   ELSE IF age[p] + LobbyTickLen >= INVITE_TTL THEN INVITE_TTL
                   ELSE age[p] + LobbyTickLen]
    /\ watch' = [p \in Pairs |-> {Max0(t - LobbyTickLen) : t \in watch[p]}]
    /\ UNCHANGED <<lobby, sent, games, ops, ret, sessionVars, restVars>>
    /\ UNCHANGED lops

\* InviteService.invites_expired(user1, user2): neither the key
\* invites_incoming:<user2> nor the key invites_outgoing:<user1> exists
invites_expired(user1, user2) == invin[user2] = {} /\ invout[user1] = {}

\* schedule_invite_watch(user1, user2) after a sleep: either the invite
\* state is pushed to both users and the task ends, or it sleeps again
WatchPoll(user1, user2) ==
    /\ 0 \in watch[<<user1, user2>>]
    /\ IF invites_expired(user1, user2)
       THEN /\ watch' = [watch EXCEPT ![<<user1, user2>>] = @ \ {0}]
            /\ sent' = InviteMsg(user2, "invite_state", user1)
       ELSE /\ watch' = [watch EXCEPT ![<<user1, user2>>] = (@ \ {0}) \cup {WATCH_POLL}]
            /\ UNCHANGED sent
    /\ UNCHANGED <<invin, invout, ttl, lobby, age, lops>>
    /\ UNCHANGED <<games, ops, ret, sessionVars, restVars>>

\* The keys of a player status
StatusKeys == {"temp_disconnect", "full_disconnect", "restart"}

\* A call of GameService.set_status that has not read the status yet.
IdleWriter == [pc |-> "idle", st |-> <<>>, value |-> FALSE]

MoreInit ==
    /\ ingame = [u \in Users |-> NoNotice]
    /\ writer = [k \in StatusKeys |-> IdleWriter]

LobbyNext ==
    \/ \E p \in Pairs : Invite(p[1], p[2])
    \/ \E u \in Users : InviteOut(u)
    \/ \E p \in Pairs, status \in Answers : Respond(p[1], p[2], status)
    \/ \E u \in Users : RespondOut(u)
    \/ \E u \in Users, first \in Users : RespondAccepted(u, first)
    \/ \E u \in Users : RespondDeclined(u)
    \/ \E p \in Pairs : Cancel(p[1], p[2])
    \/ \E u \in Users : CancelOut(u)
    \/ \E p \in Pairs : WatchPoll(p[1], p[2])
    \/ LobbyTick

\* ---------------------------------------------- game sessions: rematch

\* The one game session of player u this part follows.
SessionOf(u) == <<u, 1>>

Joined(u) == SessionOf(u) \in group

RematchInit ==
    /\ inbox = [u \in SessionUsers |-> <<>>]
    /\ voter = [u \in SessionUsers |-> "idle"]
    /\ round = 0
    /\ told = [u \in SessionUsers |-> 0]
    /\ shown = [u \in SessionUsers |-> 0]
    /\ nvotes = 0

\* channel_layer.group_send(self.game_id, {"type": type}): the message is
\* queued for every session in the match group.
group_send(box, members, type) ==
    [u \in SessionUsers |->
        IF SessionOf(u) \in members THEN Append(box[u], type) ELSE box[u]]

\* A client action reaches a session that has handled what it was sent so
\* far, up to MaxInbox messages.
RoomInInbox == \A u \in SessionUsers : Len(inbox[u]) <= MaxInbox

\* The accepted invite: game_engine.create_game for the pair.
MatchMade(first) ==
    /\ ~(G0 \in DOMAIN games)
    /\ first \in {G0[1], G0[2]}
    /\ games' = DictPut(games, G0, NewGame(G0[1], G0[2], first))
    /\ gorder' = KeysPut(gorder, G0)
    /\ ret' = Ret("create_game", None, "none", "none")
    /\ ops' = 0
    /\ UNCHANGED <<sessionVars, lobbyVars, presenceVars, rematchVars>>
    /\ UNCHANGED <<ingame, writer>>

\* GameConsumer.connect of a player of the game: the status is read or
\* initialised, the session joins the match group, temp_disconnect is set
\* to false and game.update is broadcast.
Join(u) ==
    /\ G0 \in DOMAIN games
    /\ ~Joined(u)
    /\ RoomInInbox
    /\ LET status == IF get_player_status(G0, u) = <<>> THEN DefaultStatus
                     ELSE get_player_status(G0, u)[1]
       IN /\ Admitted(u \in PlayerSet(games[G0]), status)
          /\ kshash' = set_hash(kshash, G0, u, [status EXCEPT !.temp_disconnect = FALSE])
    /\ group' = group \cup {SessionOf(u)}
    /\ inbox' = group_send(inbox, group', "game.update")
    /\ told' = [told EXCEPT ![u] = round]
    /\ shown' = [shown EXCEPT ![u] = round]
    /\ UNCHANGED <<kschat, sess, away, hist, games, ops, ret, voter, round, nvotes>>
    /\ UNCHANGED <<lobbyVars, presenceVars, moreVars>>

\* action_make_move: game_engine.make_move, then the game.update broadcast
Shoot(u, x, y) ==
    /\ G0 \in DOMAIN games
    /\ Joined(u)
    /\ voter[u] = "idle"
    /\ RoomInInbox
    /\ ops < MaxOps
    /\ ops' = ops + 1
    /\ games' = [games EXCEPT ![G0] = make_move(games[G0], u, x, y)[1]]
    /\ ret' = make_move(games[G0], u, x, y)[2]
    /\ inbox' = IF ret'.result = "IndexError" THEN inbox
                ELSE group_send(inbox, group, "game.update")
    /\ UNCHANGED <<sessionVars, lobbyVars, presenceVars, moreVars, voter, round, told, shown, nvotes>>

\* action_restart_game up to set_restart(True) and the push of
\* "... HAS VOTED FOR A REMATCH"
VoteSet(u) ==
    /\ G0 \in DOMAIN games
    /\ Joined(u)
    /\ voter[u] = "idle"
    /\ RoomInInbox
    /\ nvotes < MaxVotes
    /\ nvotes' = nvotes + 1
    /\ get_player_status(G0, u) # <<>>
    /\ kshash' = set_hash(kshash, G0, u,
                          [get_player_status(G0, u)[1] EXCEPT !.restart = TRUE])
    /\ voter' = [voter EXCEPT ![u] = "v_check"]
    /\ UNCHANGED <<kschat, group, sess, away, hist, games, ops, ret,
                   inbox, round, told, shown>>
    /\ UNCHANGED <<lobbyVars, presenceVars, moreVars>>

\* if await GameService.all_status_true(self.game_id, "restart"):
\* send.restart is broadcast, create_game replaces the game for the sorted
\* players, game.update is broadcast.
VoteCheck(u, first) ==
    /\ voter[u] = "v_check"
    /\ voter' = [voter EXCEPT ![u] = "idle"]
    /\ IF all_status_true(G0, "restart")
       THEN LET pair == Sorted2(games[G0].players[1], games[G0].players[2])
            IN /\ first \in {pair[1], pair[2]}
               /\ games' = DictPut(games, G0, NewGame(pair[1], pair[2], first))
               /\ gorder' = KeysPut(gorder, G0)
               /\ inbox' = group_send(group_send(inbox, group, "send.restart"),
                                      group, "game.update")
               /\ round' = round + 1
               /\ ret' = Ret("create_game", None, "none", "none")
               /\ ops' = 0
       ELSE /\ first = G0[1]
            /\ UNCHANGED <<games, gorder, inbox, round, ret, ops>>
    /\ UNCHANGED <<sessionVars, lobbyVars, presenceVars, told, shown, nvotes>>
    /\ UNCHANGED <<ingame, writer>>

\* The session of u handles the next group message: send_restart sends
\* new_game, game_update sends the game_state the engine holds now.
Deliver(u) ==
    /\ inbox[u] # <<>>
    /\ voter[u] = "idle"
    /\ inbox' = [inbox EXCEPT ![u] = Tail(@)]
    /\ IF Head(inbox[u]) = "send.restart"
       THEN /\ told' = [told EXCEPT ![u] = @ + 1]
            /\ UNCHANGED shown
       ELSE /\ shown' = [shown EXCEPT ![u] = round]
            /\ UNCHANGED told
    /\ UNCHANGED <<sessionVars, lobbyVars, presenceVars, moreVars, games, ops, ret, voter, round, nvotes>>

RematchNext ==
    \/ \E first \in SessionUsers : MatchMade(first)
    \/ \E u \in SessionUsers : Join(u)
    \/ \E u \in SessionUsers, x \in StartCols, y \in RowArgs : Shoot(u, x, y)
    \/ \E u \in SessionUsers : VoteSet(u)
    \/ \E u \in SessionUsers, first \in SessionUsers : VoteCheck(u, first)
    \/ \E u \in SessionUsers : Deliver(u)

\* ------------------------------------------- lobby: sessions and chats

\* ex=30 in RedisService.set_with_ttl
ONLINE_TTL == 30

\* asyncio.sleep(30) in BaseConsumer.cleanup_lobby_chat
CLEANUP_DELAY == 30

LobbyUsers == {UserOrder[1], UserOrder[2]}

\* chat_id = f"{player1}_{player2}" of the sorted pair; chat_id.split("_")
\* gives the two names back (no name of UserOrder holds a "_").
ChatIdOf(u, v) == Sorted2(u, v)

Participants(chat_id) == {chat_id[1], chat_id[2]}

ChatIds == {ChatIdOf(u, v) : u \in LobbyUsers, v \in LobbyUsers}

PresenceInit ==
    /\ opens = [u \in LobbyUsers |-> 0]
    /\ roster = {}
    /\ online = [u \in LobbyUsers |-> 0]
    /\ chatlist = {}
    /\ chatidx = [u \in LobbyUsers |-> {}]
    /\ cleanup = [u \in LobbyUsers |-> {}]
    /\ pops = 0

\* A woken cleanup task has its step to take.
CleanupDue == \E u \in LobbyUsers : 0 \in cleanup[u]

\* A client event arrives.
PresenceEvent == ~CleanupDue /\ pops < MaxPresenceOps /\ pops' = pops + 1

\* BaseConsumer.refresh_user_ttl
refresh_user_ttl(keys, u) == [keys EXCEPT ![u] = ONLINE_TTL]

\* LobbyConsumer.find_game_id: the first game of the engine's dict that has
\* the user among its players, None when there is none
find_game_id(u) ==
    LET found == {i \in 1..Len(gorder) : u \in PlayerSet(games[gorder[i]])}
    IN IF found = {} THEN NoGameId
       ELSE gorder[CHOOSE i \in found : \A j \in found : i <= j]

\* status["full_disconnect"] in LobbyConsumer.connect raises TypeError when
\* get_player_status has returned None.
ConnectRaises(u) ==
    /\ find_game_id(u) # NoGameId
    /\ get_player_status(find_game_id(u), u) = <<>>

\* What connect does about in_game for the game find_game_id has found.
ConnectNotice(u, n) ==
    IF find_game_id(u) = NoGameId THEN Notice("none", NoGameId, n)
    ELSE IF get_player_status(find_game_id(u), u)[1].full_disconnect
         THEN Notice("none", NoGameId, n)
    ELSE Notice("in_game", find_game_id(u), n)

\* LobbyConsumer.connect: accept, find_game_id and the in_game message,
\* then LobbyService.add_user and refresh_user_ttl; an exception on the way
\* ends the consumer before the session is in any group or on the roster.
LobbyOpen(u) ==
    /\ PresenceEvent
    /\ opens[u] < MaxTabs
    /\ IF ConnectRaises(u)
       THEN /\ ingame' = [ingame EXCEPT ![u] = Notice("TypeError", NoGameId, @.n + 1)]
            /\ UNCHANGED <<opens, roster, online>>
       ELSE /\ ingame' = [ingame EXCEPT ![u] = ConnectNotice(u, @.n + 1)]
            /\ opens' = [opens EXCEPT ![u] = @ + 1]
            /\ roster' = roster \cup {u}
            /\ online' = refresh_user_ttl(online, u)
    /\ UNCHANGED <<chatlist, chatidx, cleanup>>
    /\ UNCHANGED <<games, ops, ret, sessionVars, lobbyVars, rematchVars>>
    /\ UNCHANGED <<gorder, writer>>

\* LobbyConsumer.disconnect: LobbyService.remove_user, then
\* create_task(cleanup_lobby_chat), which starts with its sleep
LobbyClose(u) ==
    /\ PresenceEvent
    /\ opens[u] > 0
    /\ opens' = [opens EXCEPT ![u] = @ - 1]
    /\ roster' = roster \ {u}
    /\ cleanup' = [cleanup EXCEPT ![u] = @ \cup {CLEANUP_DELAY}]
    /\ UNCHANGED <<online, chatlist, chatidx>>
    /\ UNCHANGED <<games, ops, ret, sessionVars, lobbyVars, rematchVars, moreVars>>

\* action_send_msg of the lobby: the chat is listed for both users and the
\* message is pushed on the chat list
SendMsg(u, receiver) ==
    /\ PresenceEvent
    /\ opens[u] > 0
    /\ online' = refresh_user_ttl(online, u)
    /\ chatidx' = [p \in LobbyUsers |->
                     IF p \in {u, receiver}
                     THEN chatidx[p] \cup {ChatIdOf(receiver, u)} ELSE chatidx[p]]
    /\ chatlist' = chatlist \cup {ChatIdOf(receiver, u)}
    /\ UNCHANGED <<opens, roster, cleanup>>
    /\ UNCHANGED <<games, ops, ret, sessionVars, lobbyVars, rematchVars, moreVars>>

\* action_ping: refresh_ttl_on_action only
Ping(u) ==
    /\ PresenceEvent
    /\ opens[u] > 0
    /\ online' = refresh_user_ttl(online, u)
    /\ UNCHANGED <<opens, roster, chatlist, chatidx, cleanup>>
    /\ UNCHANGED <<games, ops, ret, sessionVars, lobbyVars, rematchVars, moreVars>>

\* for player in players: player != username and exists(online_<player>)
Active(chat_id, username) ==
    \E player \in Participants(chat_id) : player # username /\ online[player] > 0

\* The chats the cleanup task of username deletes.
Inactive(username) == {c \in chatidx[username] : ~Active(c, username)}

\* cleanup_lobby_chat of username after its sleep
CleanupRun(username) ==
    /\ 0 \in cleanup[username]
    /\ cleanup' = [cleanup EXCEPT ![username] = @ \ {0}]
    /\ chatlist' = chatlist \ Inactive(username)
    /\ chatidx' = [p \in LobbyUsers |->
                     chatidx[p] \ {c \in Inactive(username) : p \in Participants(c)}]
    /\ UNCHANGED <<opens, roster, online, pops>>
    /\ UNCHANGED <<games, ops, ret, sessionVars, lobbyVars, rematchVars, moreVars>>

\* PresenceTickLen seconds pass: online keys run out, sleeps run down.
PresenceTick ==
    /\ ~CleanupDue
    /\ online' = [u \in LobbyUsers |-> Max0(online[u] - PresenceTickLen)]
    /\ cleanup' = [u \in LobbyUsers |->
                     {Max0(t - PresenceTickLen) : t \in cleanup[u]}]
    /\ UNCHANGED <<opens, roster, chatlist, chatidx, pops>>
    /\ UNCHANGED <<games, ops, ret, sessionVars, lobbyVars, rematchVars, moreVars>>

PresenceNext ==
    \/ \E u \in LobbyUsers : LobbyOpen(u)
    \/ \E u \in LobbyUsers : LobbyClose(u)
    \/ \E u \in LobbyUsers, v \in LobbyUsers : SendMsg(u, v)
    \/ \E u \in LobbyUsers : Ping(u)
    \/ \E u \in LobbyUsers : CleanupRun(u)
    \/ PresenceTick

\* ------------------------------------------- lobby: back from a game

\* GameConsumer.connect on a game whose match group is not followed here:
\* the status is read, or initialised when the hash has no field for the
\* user; an admitted player has temp_disconnect set to false, anyone else
\* is closed with 4000.
GameOpen(g, u) ==
    /\ g # G0
    /\ g \in DOMAIN games
    /\ LET status == IF get_player_status(g, u) = <<>> THEN DefaultStatus
                     ELSE get_player_status(g, u)[1]
       IN kshash' = set_hash(kshash, g, u,
                       IF Admitted(u \in PlayerSet(games[g]), status)
                       THEN [status EXCEPT !.temp_disconnect = FALSE]
                       ELSE status)
    /\ UNCHANGED <<kschat, group, sess, away, hist, games, ops, ret>>
    /\ UNCHANGED <<lobbyVars, rematchVars, presenceVars, moreVars>>

\* action_leave_game of a player in a game session: set_full_disconnect(True)
GameLeave(g, u) ==
    /\ g \in DOMAIN games
    /\ u \in PlayerSet(games[g])
    /\ IF g = G0 THEN u \in SessionUsers /\ Joined(u) ELSE TRUE
    /\ get_player_status(g, u) # <<>>
    /\ ~get_player_status(g, u)[1].full_disconnect
    /\ kshash' = set_hash(kshash, g, u,
                    [get_player_status(g, u)[1] EXCEPT !.full_disconnect = TRUE])
    /\ UNCHANGED <<kschat, group, sess, away, hist, games, ops, ret>>
    /\ UNCHANGED <<lobbyVars, rematchVars, presenceVars, moreVars>>

\* The user who comes back to the lobby, and the users who accept that
\* user's invites.
Returner == UserOrder[1]

Partners == Users \ {Returner}

ReturnNext ==
    \/ \E v \in Partners : Respond(v, Returner, "accepted")
    \/ \E v \in Partners : RespondOut(v)
    \/ \E v \in Partners : RespondAccepted(v, Returner)
    \/ \E u \in SessionUsers : Join(u)
    \/ \E u \in SessionUsers : Deliver(u)
    \/ \E g \in GameIds, u \in Users : GameOpen(g, u)
    \/ \E g \in GameIds, u \in Users : GameLeave(g, u)
    \/ LobbyOpen(Returner)

\* ------------------------------------- game sessions: status updates

\* The player whose status the calls below read and write.
RacePlayer == G0[1]

\* The calls of GameService.set_status the consumer makes:
\* set_temp_disconnect(True) in disconnect and (False) in connect,
\* set_full_disconnect(True) in delayed_leave and action_leave_game,
\* set_restart(True) in action_restart_game.
StatusCalls ==
    {<<"temp_disconnect", TRUE>>, <<"temp_disconnect", FALSE>>,
     <<"full_disconnect", TRUE>>, <<"restart", TRUE>>}

\* GameService.init_player_status in connect: the hash has no field yet
StatusInit ==
    /\ get_player_status(G0, RacePlayer) = <<>>
    /\ kshash' = set_hash(kshash, G0, RacePlayer, DefaultStatus)
    /\ UNCHANGED <<kschat, group, sess, away, hist, games, ops, ret>>
    /\ UNCHANGED <<lobbyVars, rematchVars, presenceVars, moreVars>>

\* GameService.set_status(game_id, username, key, value), first half:
\* status = await get_player_status(game_id, username)
StatusRead(key, value) ==
    /\ writer[key].pc = "idle"
    /\ writer' = [writer EXCEPT ![key] =
          [pc |-> "write", st |-> get_player_status(G0, RacePlayer), value |-> value]]
    /\ UNCHANGED <<sessionVars, games, ops, ret>>
    /\ UNCHANGED <<lobbyVars, rematchVars, presenceVars, gorder, ingame>>

\* GameService.set_status, second half: status[key] = value raises
\* TypeError on None; otherwise the record read is written back whole.
StatusWrite(key) ==
    /\ writer[key].pc = "write"
    /\ writer' = [writer EXCEPT ![key] = IdleWriter]
    /\ IF writer[key].st = <<>>
       THEN UNCHANGED kshash
       ELSE kshash' = set_hash(kshash, G0, RacePlayer,
                         [writer[key].st[1] EXCEPT ![key] = writer[key].value])
    /\ UNCHANGED <<kschat, group, sess, away, hist, games, ops, ret>>
    /\ UNCHANGED <<lobbyVars, rematchVars, presenceVars, gorder, ingame>>

\* GameService.delete_game_status in handle_full_disconnect
StatusDelete ==
    /\ kshash[G0] # EmptyDict
    /\ kshash' = [kshash EXCEPT ![G0] = EmptyDict]
    /\ UNCHANGED <<kschat, group, sess, away, hist, games, ops, ret>>
    /\ UNCHANGED <<lobbyVars, rematchVars, presenceVars, moreVars>>

RaceNext ==
    \/ StatusInit
    \/ \E c \in StatusCalls : StatusRead(c[1], c[2])
    \/ \E key \in StatusKeys : StatusWrite(key)
    \/ StatusDelete

SessionNext ==
    \/ CreateGame(G0, G0[1])
    \/ \E u \in SessionUsers : Open(u)
    \/ \E s \in Slots : ConnInit(s)
    \/ \E s \in Slots : ConnCheck(s)
    \/ \E s \in Slots : ConnSetTemp(s)
    \/ \E s \in Slots : LeaveRead(s)
    \/ \E s \in Slots : LeaveWrite(s)
    \/ \E s \in Slots : Close(s)
    \/ \E s \in Slots : DiscWrite(s)
    \/ \E s \in Slots : TaskStart(s)
    \/ \E s \in Slots : TaskDecide(s)
    \/ \E s \in Slots : TaskWake(s)
    \/ \E s \in Slots : TaskRecheck(s)
    \/ \E s \in Slots : TaskSetFull(s)
    \/ \E s \in Slots : HandleBegin(s)
    \/ \E s \in Slots : HandleDecide(s)
    \/ \E s \in Slots : HandleDelHash(s)
    \/ \E s \in Slots : HandleEnd(s)
    \/ Tick

EngineNext ==
    \/ \E first \in {G0[1], G0[2]} : CreateGame(G0, first)
    \/ \E p \in {G0[1], G0[2]}, x \in StartCols, y \in RowArgs,
          l \in LenArgs, o \in Orientations :
          PlaceShips(G0, p, x, y, l, o)
    \/ \E p \in {G0[1], G0[2]}, x \in StartCols, y \in RowArgs : RemoveShip(G0, p, x, y)
    \/ \E p \in {G0[1], G0[2]} : SetReady(G0, p)
    \/ \E p \in {G0[1], G0[2]}, x \in ColArgs, y \in RowArgs : MakeMove(G0, p, x, y)
    \/ EndGame(G0)

vars == <<games, ops, ret, kshash, kschat, group, sess, away, hist,
          invin, invout, ttl, lobby, sent, age, lops, watch,
          inbox, voter, round, told, shown, nvotes,
          opens, roster, online, chatlist, chatidx, cleanup, pops,
          gorder, ingame, writer>>

Init ==
    /\ EngineInit /\ SessionInit /\ LobbyInit /\ RematchInit /\ PresenceInit
    /\ MoreInit

\* The rules engine alone: calls in any order from either player.
EngineSpec == Init /\ [][EngineNext]_vars

\* The game sessions of one match: opens, closes, leave_game, the grace
\* tasks and the clock.
SessionSpec == Init /\ [][SessionNext]_vars

\* The rematch of one match: the players join, shoot and vote for a
\* rematch; the sessions handle the group messages in the order sent.
RematchSpec == Init /\ [][RematchNext]_vars

\* The lobby sessions: opens and closes, the online keys, the 1:1 chats and
\* their cleanup.
PresenceSpec == Init /\ [][PresenceNext]_vars

\* The invites of the lobby: invite, invite_response, invite_cancel among
\* the users, and the expiry of the invite sets.
LobbySpec == Init /\ [][LobbyNext]_vars

\* Users who are in games open lobby sessions: invites are accepted, game
\* sessions are opened and left, lobby sessions are opened and closed.
ReturnSpec == Init /\ [][ReturnNext]_vars

\* The status of one player under the calls of set_status that the
\* sessions and grace tasks of the player make, each a read and a write.
RaceSpec == Init /\ [][RaceNext]_vars

\* ============================================================ rules engine

Players0 == {G0[1], G0[2]}

HasGame == G0 \in DOMAIN games

BothReady(game) == \A p \in PlayerSet(game) : game.ready[p]

SunkCount(game, p) ==
    Cardinality({k \in 1..Len(game.placed_ships[p]) : game.placed_ships[p][k].sunk})

\* C4: a make_move by a player who does not hold the turn is answered with a
\* private "NOT YOUR TURN" and leaves the match state as it was.
C4_OutOfTurnRejected ==
    [][\A p \in Players0, x \in ColArgs, y \in RowArgs :
          (HasGame /\ games[G0].turn # p /\ MakeMove(G0, p, x, y))
          => /\ games' = games
             /\ ret'.result = "NOT YOUR TURN"
             /\ ret'.access = "private"]_vars

\* C5: a make_move changes the match state only when both players are ready.
C5_MoveNeedsBothReady ==
    [][\A p \in Players0, x \in ColArgs, y \in RowArgs :
          (HasGame /\ ~BothReady(games[G0]) /\ MakeMove(G0, p, x, y))
          => games' = games]_vars

\* C6: a make_move at a cell the shooter already shot at is answered with a
\* private "ALREADY SHOT THIS POSITION - CHOOSE ANOTHER" and leaves the
\* match state as it was.
C6_RepeatShotRejected ==
    [][\A p \in Players0, x \in ColArgs, y \in RowArgs :
          (/\ HasGame
           /\ ValidCell(<<x, y>>)
           /\ GridGet(games[G0].hits[p], <<x, y>>) # ""
           /\ MakeMove(G0, p, x, y))
          => /\ games' = games
             /\ ret'.result = "ALREADY SHOT THIS POSITION - CHOOSE ANOTHER"
             /\ ret'.access = "private"]_vars

\* A repeated shot has just been refused.
C6_Witness ==
    /\ HasGame
    /\ ret.op = "make_move"
    /\ ret.result = "ALREADY SHOT THIS POSITION - CHOOSE ANOTHER"
    /\ \E x \in Rows, y \in Rows : games[G0].hits[ret.player][y][x] # ""

\* C7: after a make_move by p that returns a public result the turn is p's
\* opponent, and the turn is always one of the two players.
C7_TurnPasses ==
    /\ [](HasGame => games[G0].turn \in PlayerSet(games[G0]))
    /\ [][\A p \in Players0, x \in ColArgs, y \in RowArgs :
            (HasGame /\ MakeMove(G0, p, x, y) /\ ret'.access = "public")
            => /\ games'[G0].turn \in PlayerSet(games[G0])
               /\ games'[G0].turn # p]_vars

\* The player who held the turn has shot and the turn has passed on.
C7_Witness ==
    /\ HasGame
    /\ ret.op = "make_move"
    /\ ret.access = "public"
    /\ games[G0].turn # ret.player
    /\ \E x \in Rows, y \in Rows : games[G0].hits[ret.player][y][x] # ""

\* C8: the winner is set exactly when every ship the opponent has placed is
\* sunk; in no state is every placed ship of a player sunk while the winner
\* is null.
C8_WinnerIffFleetSunk ==
    HasGame =>
        \A p \in PlayerSet(games[G0]) :
            LET fleet == games[G0].placed_ships[Enemy(games[G0], p)]
            IN /\ (fleet # <<>> /\ AllSunk(fleet)) => games[G0].winner # None
               /\ games[G0].winner = p => (fleet # <<>> /\ AllSunk(fleet))

\* C9: once the winner is set no make_move changes the turn, until
\* create_game makes the match anew.
C9_NoTurnAfterWin ==
    [][\A p \in Players0, x \in ColArgs, y \in RowArgs :
          (HasGame /\ games[G0].winner # None /\ MakeMove(G0, p, x, y))
          => games'[G0].turn = games[G0].turn]_vars

\* C10: a make_move never lowers the number of sunk ships of either player.
C10_SunkNeverDecreases ==
    [][\A p \in Players0, x \in ColArgs, y \in RowArgs :
          (HasGame /\ MakeMove(G0, p, x, y))
          => \A q \in Players0 :
                SunkCount(games'[G0], q) >= SunkCount(games[G0], q)]_vars

\* A shot sinks a ship while another ship of the same fleet is already sunk.
C10_Witness ==
    /\ HasGame
    /\ ret.op = "make_move"
    /\ ret.result = "GAME OVER WON"
    /\ SunkCount(games[G0], Enemy(games[G0], ret.player)) >= 2


\* =========================================================== game sessions

FullyDisconnected(u) ==
    u \in DOMAIN kshash[G0] /\ kshash[G0][u].full_disconnect

NeverOpened(u) == \A k \in 1..MaxOpens : sess[<<u, k>>].pc = "free"

Other(u) == IF u = G0[1] THEN G0[2] ELSE G0[1]

\* C1: a player who after every close has opened a session again within the
\* 10 s of grace (or whose last close is less than 10 s old), and who never
\* sent leave_game, is not fully disconnected and has no "HAS LEFT THE GAME"
\* posted -- however many close/reopen cycles there were and whatever grace
\* tasks of earlier closes are still pending.
C1_ReconnectKeepsPlayer ==
    \A u \in SessionUsers :
        (~hist[u].abandoned /\ ~hist[u].sent_leave)
        => /\ ~FullyDisconnected(u)
           /\ hist[u].left_posts = 0

\* C2: for a player who closed a joined session and opened none during the
\* following 10 s, full_disconnect becomes true and the full-disconnect
\* handling runs once in the match, never twice.
C2_HandledOnce ==
    \A u \in SessionUsers :
        ~hist[u].sent_leave
        => /\ hist[u].handled <= 1
           /\ (away[u] = GRACE /\ ~Busy /\ u \in DOMAIN kshash[G0])
                  => FullyDisconnected(u)

\* C3: the match is torn down (chat list and status hash deleted, game
\* removed from the engine) only when both participants are fully
\* disconnected; while one of them is not -- here: has never opened a game
\* session -- the other's full-disconnect handling keeps the game.
C3_OneLeaverKeepsMatch ==
    \A u \in SessionUsers :
        NeverOpened(Other(u))
        => /\ \A k \in 1..MaxOpens : sess[<<u, k>>].pc \notin {"h_delhash", "h_end"}
           /\ (\E k \in 1..MaxOpens : sess[<<u, k>>].pc = "done") => HasGame


\* ================================================ rules engine: the fleets

\* The last engine call was one of the four calls of a player on the game.
PlayerCall == ret.op \in {"place_ships", "remove_ship", "set_ready", "make_move"}

\* C11: a winner once set is never cleared back to null by place_ships,
\* remove_ship, set_ready or make_move; only create_game resets it.
C11_WinnerStays ==
    [][(/\ HasGame
        /\ games[G0].winner # None
        /\ ret'.op \in {"place_ships", "remove_ship", "set_ready", "make_move"})
       => (G0 \in DOMAIN games' /\ games'[G0].winner # None)]_vars

\* The game has a winner and a player's call came after the winning shot.
C11_Witness ==
    /\ HasGame
    /\ games[G0].winner # None
    /\ PlayerCall
    /\ ret.result # "GAME OVER WON"


\* sum(len(ship["coords"]) for ship in placed_ships[p])
RECURSIVE SumCoords(_, _)
SumCoords(ships, i) ==
    IF i > Len(ships) THEN 0 ELSE Len(ships[i].coords) + SumCoords(ships, i + 1)

\* sum(length * count for length, count in ships_left[p].items())
RECURSIVE SumLeft(_, _)
SumLeft(left, lens) ==
    IF lens = {} THEN 0
    ELSE LET l == CHOOSE l \in lens : TRUE
         IN l * left[l] + SumLeft(left, lens \ {l})

\* Cells of a full inventory (2+3+3+4+5 = 17 in the code).
InventoryCells == SumLeft(ships_init, ShipLens)

\* C12: for each player the cells of the placed ships plus the cells of the
\* ships still in the inventory add up to the cells of the full inventory,
\* and no inventory count is negative or above its initial value.
C12_InventoryConserved ==
    HasGame =>
        \A p \in PlayerSet(games[G0]) :
            /\ SumCoords(games[G0].placed_ships[p], 1)
                 + SumLeft(games[G0].ships_left[p], ShipLens) = InventoryCells
            /\ \A l \in ShipLens :
                 /\ games[G0].ships_left[p][l] >= 0
                 /\ games[G0].ships_left[p][l] <= ships_init[l]

\* A ship has been taken back while another one stays placed.
C12_Witness ==
    /\ HasGame
    /\ ret.op = "remove_ship"
    /\ ret.result = "SHIP REMOVED"
    /\ games[G0].placed_ships[ret.player] # <<>>
    /\ \E l \in ShipLens : games[G0].ships_left[ret.player][l] = ships_init[l]


\* Some placed ship of the fleet holds the coordinate pair c.
Covered(ships, c) == \E k \in 1..Len(ships) : InCoords(c, ships[k].coords)

\* C13: boards[p][y][x] is "S" exactly when (x, y) is in the coords of some
\* entry of placed_ships[p].
C13_BoardMatchesFleet ==
    HasGame =>
        \A p \in PlayerSet(games[G0]) : \A x \in Rows, y \in Rows :
            (games[G0].boards[p][y][x] = "S")
                <=> Covered(games[G0].placed_ships[p], <<x, y>>)

\* Ships of the fleet that hold the coordinate pair c.
ShipsAt(ships, c) == {k \in 1..Len(ships) : InCoords(c, ships[k].coords)}

\* Some coordinate of the ship is no cell of the grid.
OffGrid(coords) ==
    \E i \in 1..Len(coords) : coords[i][1] \notin Rows \/ coords[i][2] \notin Rows

\* C14: a place_ships with a cell outside the grid, also one that runs off
\* the edge from a start inside it, returns an error and leaves the game as
\* it was.
C14_OffGridRejected ==
    [][\A p \in Players0, x \in StartCols, y \in RowArgs,
          l \in ShipLens, o \in Orientations :
          (/\ HasGame
           /\ games[G0].ships_left[p][l] > 0
           /\ OffGrid(ShipCoords(x, y, l, o))
           /\ PlaceShips(G0, p, x, y, l, o))
          => /\ games' = games
             /\ ret'.access = "private"]_vars

\* C15: a place_ships that overlaps a ship the player has placed is
\* rejected, so each coordinate belongs to at most one placed ship.
C15_NoOverlap ==
    HasGame =>
        \A p \in PlayerSet(games[G0]) : \A x \in Rows, y \in Rows :
            Cardinality(ShipsAt(games[G0].placed_ships[p], <<x, y>>)) <= 1


\* C16: set_ready sets ready[player] only if every count of the player's
\* inventory is zero, with a public result; otherwise it answers with the
\* private "YOU MUST PLACE ALL SHIPS FIRST" and leaves ready as it was.
C16_ReadyNeedsFleet ==
    [][\A p \in Players0 :
          (HasGame /\ SetReady(G0, p))
          => IF \A l \in ShipLens : games[G0].ships_left[p][l] = 0
             THEN /\ games'[G0] = [games[G0] EXCEPT !.ready[p] = TRUE]
                  /\ ret'.result = "IS READY"
                  /\ ret'.access = "public"
             ELSE /\ games' = games
                  /\ ret'.result = "YOU MUST PLACE ALL SHIPS FIRST"
                  /\ ret'.access = "private"]_vars

\* A player with every ship placed has been marked ready.
C16_Witness ==
    /\ HasGame
    /\ ret.op = "set_ready"
    /\ ret.result = "IS READY"
    /\ games[G0].ready[ret.player]
    /\ \A l \in ShipLens : games[G0].ships_left[ret.player][l] = 0


\* ============================================ rules engine: what is shown

\* Ways to lay a ship of the given length inside the grid.
Placements(length) ==
    {coords \in {ShipCoords(x, y, length, o) :
                    x \in Rows, y \in Rows, o \in Orientations} : ~OffGrid(coords)}

\* board[y][x] = "S" for the cells of every ship of the fleet
BoardOf(ships) ==
    [y \in Rows |-> [x \in Rows |-> IF Covered(ships, <<x, y>>) THEN "S" ELSE ""]]

\* The shooter has shot at some cell of the ship.
Touched(hit_board, coords) ==
    \E i \in 1..Len(coords) : GridGet(hit_board, coords[i]) # ""

\* Fleets that differ from ships only in where the ships no cell of which
\* the shooter has shot at lie, on cells the shooter has not shot at.
MovedFleets(ships, hit_board) ==
    {f \in [1..Len(ships) ->
              [coords : UNION {Placements(l) : l \in ShipLens}, sunk : BOOLEAN]] :
        \A k \in 1..Len(ships) :
            /\ f[k].sunk = ships[k].sunk
            /\ Len(f[k].coords) = Len(ships[k].coords)
            /\ IF Touched(hit_board, ships[k].coords)
               THEN f[k].coords = ships[k].coords
               ELSE ~Touched(hit_board, f[k].coords)}

\* The game with the opponent of player holding the fleet f instead.
WithFleet(game, player, f) ==
    [game EXCEPT !.boards[Enemy(game, player)] = BoardOf(f),
                 !.placed_ships[Enemy(game, player)] = f]

\* C17: while there is no winner the state shown to a player is the same
\* for any two games that differ only in where the opponent's ships that
\* the player has not hit lie.
C17_UnhitShipsHidden ==
    (HasGame /\ games[G0].winner = None) =>
        \A p \in PlayerSet(games[G0]) :
            LET fleet == games[G0].placed_ships[Enemy(games[G0], p)]
            IN (games[G0].boards[Enemy(games[G0], p)] = BoardOf(fleet))
               => \A f \in MovedFleets(fleet, games[G0].hits[p]) :
                     get_game_state(WithFleet(games[G0], p, f), p)
                        = get_game_state(games[G0], p)

\* ================================================================= invites

\* C18: whenever no add_invite or remove_invite is mid-way, v is in
\* invites_outgoing:u exactly when u is in invites_incoming:v, for any two
\* users, after any invites, answers, cancels and expiries.
C18_InviteSymmetry ==
    LobbyIdle =>
        \A p \in Pairs : (p[2] \in invout[p[1]]) <=> (p[1] \in invin[p[2]])

\* C19: an invite sent once and neither answered, cancelled nor sent again
\* is in neither invites_incoming:<to> nor invites_outgoing:<from> once 60s
\* have passed since it was created, whatever other invites were sent by or
\* to either user meanwhile.
C19_InviteLifetime ==
    LobbyIdle =>
        \A p \in Pairs :
            age[p] >= INVITE_TTL =>
                /\ p[1] \notin invin[p[2]]
                /\ p[2] \notin invout[p[1]]

\* The game has just been created for the two players.
Fresh(game, p1, p2) ==
    /\ game.players = <<p1, p2>>
    /\ \A p \in {p1, p2} :
          /\ \A y \in Rows, x \in Rows :
                game.boards[p][y][x] = "" /\ game.hits[p][y][x] = ""
          /\ game.placed_ships[p] = <<>>
          /\ game.ships_left[p] = ships_init
          /\ ~game.ready[p]
    /\ game.winner = None

\* The handler of u finishes an accepted invite_response to from_user.
Accepts(u, from_user) ==
    /\ lobby[u].pc = "r_send"
    /\ lobby[u].peer = from_user
    /\ lobby[u].status = "accepted"
    /\ lobby'[u].pc = "idle"

\* C20: when self has accepted the invite of from, from is not in
\* invites_incoming:<self>, self is not in invites_outgoing:<from>, the
\* sessions of from are sent invite_accepted{from: self}, and the engine
\* holds a fresh game for the sorted pair: empty boards, nobody ready, full
\* inventories, no winner.
C20_AcceptMakesGame ==
    [][\A p \in Pairs :
          Accepts(p[1], p[2]) =>
              /\ p[2] \notin invin'[p[1]]
              /\ p[1] \notin invout'[p[2]]
              /\ sent' = [to |-> p[2], type |-> "invite_accepted", from |-> p[1]]
              /\ LET pair == Sorted2(p[2], p[1])
                 IN /\ GameIdOf(pair[1], pair[2]) \in DOMAIN games'
                    /\ Fresh(games'[GameIdOf(pair[1], pair[2])], pair[1], pair[2])
      ]_vars

\* bob has accepted the invite of alice: the game of the two is there and
\* alice has been told, while the invite of carol still waits at bob.
C20_Witness ==
    /\ LobbyIdle
    /\ sent = [to |-> "alice", type |-> "invite_accepted", from |-> "bob"]
    /\ GameIdOf("alice", "bob") \in DOMAIN games
    /\ invin["bob"] = {"carol"}
    /\ "bob" \notin invout["alice"]
    /\ age[<<"alice", "bob">>] = -1
    /\ age[<<"carol", "bob">>] >= 0

\* =================================================== matches and rematches

\* C21: every game the engine holds has two distinct players p1 < p2 (in
\* lexicographic order) and is stored under the id built from p1 and p2.
C21_CanonicalGameId ==
    \A g \in DOMAIN games :
        /\ games[g].players[1] # games[g].players[2]
        /\ Rank(games[g].players[1]) < Rank(games[g].players[2])
        /\ g = GameIdOf(games[g].players[1], games[g].players[2])

\* The connect of session s has run its admission test in this step.
Tested(s) == sess[s].pc = "c_check" /\ sess'[s].pc # "c_check"

\* C22: an open of ws/game/<game_id>/ is closed with code 4000 -- no join of
\* the match group, no change of the status hash -- when the engine holds no
\* game under the id, when the user is no player of it or when the user's
\* full_disconnect is set; every other open joins the match group and goes
\* on to write temp_disconnect = false.
C22_AdmissionOrClose4000 ==
    [][/\ \A u \in SessionUsers :
            (Quiet /\ HasFree(u) /\ ~HasGame /\ sess'[NextSlot(u)].pc # "free")
            => /\ sess'[NextSlot(u)].pc = "rejected"
               /\ UNCHANGED <<kshash, group>>
       /\ \A s \in Slots :
            Tested(s) =>
              IF \/ ~HasGame
                 \/ s[1] \notin PlayerSet(games[G0])
                 \/ sess[s].st[1].full_disconnect
              THEN /\ sess'[s].pc = "rejected"
                   /\ s \notin group'
                   /\ UNCHANGED kshash
              ELSE /\ sess'[s].pc = "c_settemp"
                   /\ s \in group'
      ]_vars

\* A vote has just replaced the game.
Rematched == round' # round

\* C23: restart_game replaces the game only when both players of the game
\* have restart = true; the vote of one player alone never does, also when
\* the other player has opened no game session yet.
C23_RematchNeedsBothVotes ==
    [][Rematched =>
          \A p \in PlayerSet(games[G0]) :
              /\ p \in DOMAIN kshash'[G0]
              /\ kshash'[G0][p].restart]_vars

\* C24: right after a rematch restart is false for both players.
C24_RematchClearsVotes ==
    [][Rematched =>
          \A p \in PlayerSet(games[G0]) :
              p \in DOMAIN kshash'[G0] => ~kshash'[G0][p].restart]_vars

\* Every game_state a session has sent shows a round the session has sent
\* new_game for.
NewGameFirst == \A u \in SessionUsers : shown[u] <= told[u]

\* A session that has handled all it was sent has sent one new_game for
\* each rematch made since it joined.
NewGameToAll ==
    \A u \in SessionUsers : (Joined(u) /\ inbox[u] = <<>>) => told[u] = round

\* The rematch puts a fresh game of the same two players under the same id.
ReplacedByFresh ==
    [][Rematched =>
          /\ G0 \in DOMAIN games'
          /\ PlayerSet(games'[G0]) = PlayerSet(games[G0])
          /\ Fresh(games'[G0], games'[G0].players[1], games'[G0].players[2])]_vars

\* C25: when the vote that completes the rematch arrives, the game sessions
\* of both players are sent new_game before the game_state of the new
\* round, and the game under the same id is replaced by a fresh one of the
\* same two players.
C25_RematchEffect == []NewGameFirst /\ []NewGameToAll /\ ReplacedByFresh

\* ================================================ lobby sessions and chats

\* The cleanup task of u has run in this step.
CleanedUp(u) == 0 \in cleanup[u] /\ 0 \notin cleanup'[u]

\* The chat is gone: the chat list and its id in both users' index sets.
ChatDeleted(c) ==
    c \notin chatlist' /\ \A p \in Participants(c) : c \notin chatidx'[p]

\* C26: the cleanup of user self deletes a chat listed in lobby_chats:<self>
\* exactly when no participant of the chat, self included, has an online
\* key at the moment the cleanup runs; a chat with a participant online is
\* kept.
C26_CleanupDeletesIffAllOffline ==
    [][\A u \in LobbyUsers :
          CleanedUp(u) =>
              \A c \in chatidx[u] :
                  IF \A p \in Participants(c) : online[p] = 0
                  THEN ChatDeleted(c)
                  ELSE c \in chatidx'[u] /\ (c \in chatlist <=> c \in chatlist')
      ]_vars

\* C27: whenever no connect or disconnect of the lobby is mid-way, a user is
\* in lobby_users exactly when the user holds an open lobby session.
C27_RosterMatchesSessions ==
    \A u \in LobbyUsers : u \in roster <=> opens[u] > 0

\* ================================================= rules engine: the shots

\* A marked cell of hits[p] is "X" where the opponent's board holds a ship
\* and "O" where it does not.
MarksMatchBoard ==
    HasGame =>
        \A p \in PlayerSet(games[G0]), y \in Rows, x \in Rows :
            games[G0].hits[p][y][x] # ""
            => /\ games[G0].hits[p][y][x] \in {"X", "O"}
               /\ games[G0].hits[p][y][x] = "X"
                     <=> games[G0].boards[Enemy(games[G0], p)][y][x] = "S"

\* Between two create_game calls a cell of hits[p] changes only from empty
\* to marked, and only by a make_move of p that returns no error.
MarkedOnlyByShot ==
    (HasGame /\ G0 \in DOMAIN games' /\ ret'.op # "create_game")
    => \A p \in PlayerSet(games[G0]), y \in Rows, x \in Rows :
          games'[G0].hits[p][y][x] # games[G0].hits[p][y][x]
          => /\ games[G0].hits[p][y][x] = ""
             /\ ret'.op = "make_move"
             /\ ret'.player = p
             /\ ret'.access = "public"

\* A make_move of p at a cell of the grid that returns no error leaves the
\* cell marked.
ShotIsMarked ==
    \A p \in Players0, x \in Rows, y \in Rows :
        (HasGame /\ MakeMove(G0, p, x, y) /\ ret'.access = "public")
        => games'[G0].hits[p][y][x] # ""

\* C28: hits[p][y][x] is marked exactly when p has made a make_move at (x, y)
\* that returned no error since the game was created; in every state a
\* marked cell is "X" iff the opponent's board holds "S" there and "O"
\* otherwise; a marked cell does not change again before create_game.
C28_ShotMarking ==
    /\ []MarksMatchBoard
    /\ [][MarkedOnlyByShot /\ ShotIsMarked]_vars

\* C29: a ship of placed_ships[p] has sunk = true exactly when every one of
\* its coords is "X" in the hits grid of the opponent of p.
C29_SunkIffAllHit ==
    HasGame =>
        \A p \in PlayerSet(games[G0]) :
            \A k \in 1..Len(games[G0].placed_ships[p]) :
                games[G0].placed_ships[p][k].sunk
                <=> AllHit(games[G0].hits[Enemy(games[G0], p)],
                           games[G0].placed_ships[p][k].coords)

\* =========================================================== invite watch

\* A watcher of the invite p has made a poll in this step.
Polled(p) == 0 \in watch[p] /\ 0 \notin watch'[p]

\* The invite p is on neither side.
InviteGone(p) == p[1] \notin invin[p[2]] /\ p[2] \notin invout[p[1]]

\* C30: the watcher of invite (from, to) sleeps 60 s, then polls every 5 s;
\* at a poll that finds the invite on neither side it pushes the invite
\* state to both users and ends -- each watcher for its own invite, also
\* while invites with other partners are pending.
C30_WatcherEndsWithInvite ==
    [][\A p \in Pairs :
          (Polled(p) /\ InviteGone(p))
          => /\ watch'[p] = watch[p] \ {0}
             /\ sent' = [to |-> p[2], type |-> "invite_state", from |-> p[1]]
      ]_vars

\* ========================================================= in_game notices

\* C31: when self has accepted the invite of from, the sessions of from are
\* sent invite_accepted{from: self} and the lobby session of self sends its
\* client in_game with the game_id of the game just created for the pair.
C31_BothNotified ==
    [][\A p \in Pairs :
          Accepts(p[1], p[2]) =>
              /\ sent' = [to |-> p[2], type |-> "invite_accepted", from |-> p[1]]
              /\ LET pair == Sorted2(p[2], p[1])
                 IN /\ ingame'[p[1]].type = "in_game"
                    /\ ingame'[p[1]].game_id = GameIdOf(pair[1], pair[2])
      ]_vars


\* The live games that include u and in which the status of u has
\* full_disconnect = false.
LiveGames(u) ==
    {g \in DOMAIN games :
        /\ u \in PlayerSet(games[g])
        /\ get_player_status(g, u) # <<>>
        /\ ~get_player_status(g, u)[1].full_disconnect}

\* A lobby session of u has been opened.
LobbyOpened(u) == pops' = pops + 1 /\ opens'[u] = opens[u] + 1

\* An open of a lobby session of u has ended with an exception.
LobbyOpenFailed(u) ==
    /\ pops' = pops + 1
    /\ ingame'[u].n = ingame[u].n + 1
    /\ ingame'[u].type = "TypeError"

\* C32: when u opens a lobby session while the engine holds a game that
\* includes u and in which full_disconnect of u is false, the open does not
\* fail, the session is sent in_game with the id of such a game, and u is
\* on the roster.
C32_ReturnToGame ==
    [][\A u \in LobbyUsers :
          LiveGames(u) # {} =>
              /\ ~LobbyOpenFailed(u)
              /\ LobbyOpened(u) =>
                    /\ u \in roster'
                    /\ ingame'[u].type = "in_game"
                    /\ ingame'[u].game_id \in LiveGames(u)
      ]_vars


\* ================================================== tasks and teardown

\* The program points of delayed_leave before full-disconnect handling.
GraceTaskPcs == {"t_start", "t_decide", "t_sleep", "t_recheck", "t_setfull"}

\* The grace task of session s takes a step.
TaskSteps(s) == sess[s].pc \in GraceTaskPcs /\ sess'[s].pc # sess[s].pc

\* C33: a grace task that takes a step when the status of its player is
\* gone from the store (the hash was deleted with the match) does not end
\* with an exception and changes neither the store, the engine nor the
\* match group.
C33_TasksTolerateAbsence ==
    [][\A s \in Slots :
          (TaskSteps(s) /\ get_player_status(G0, s[1]) = <<>>)
          => /\ sess'[s].pc # "dead"
             /\ UNCHANGED <<games, kshash, kschat, group>>
      ]_vars


\* The handler of leave_game in session s returns.
LeaveDone(s) == sess[s].pc = "l_write" /\ sess'[s].pc # "l_write"

\* The grace task of session s acts on its first read of the status.
FirstDecision(s) == sess[s].pc = "t_decide" /\ sess'[s].pc # "t_decide"

\* An attempt to open a game session in slot s comes to its end.
OpenPcs == {"free", "c_init", "c_check"}

AttemptEnds(s) == sess[s].pc \in OpenPcs /\ sess'[s].pc \notin OpenPcs

\* The player has sent leave_game and the game left is still the one the
\* engine holds under the id, or has been torn down.
HasLeft(u) == hist[u].sent_leave /\ (FullyDisconnected(u) \/ ~HasGame)

\* leave_game of a player who has a status leaves the player with
\* full_disconnect = true.
LeaveSetsFull ==
    [][\A s \in Slots :
          (LeaveDone(s) /\ s[1] \in DOMAIN kshash[G0]) => FullyDisconnected(s[1])']_vars

\* A grace task that reads full_disconnect = true starts full-disconnect
\* handling at once, with no sleep.
LeftSkipsGrace ==
    [][\A s \in Slots :
          (FirstDecision(s) /\ FullyDisconnected(s[1])) => sess'[s].pc = "h_begin"]_vars

\* Every later attempt of a player who has left to open a game session
\* for the game ends closed with 4000.
LeftStaysOut ==
    [][\A s \in Slots :
          (AttemptEnds(s) /\ HasLeft(s[1])) => sess'[s].pc = "rejected"]_vars

\* C34: leave_game sets full_disconnect = true directly; the grace task
\* started by the close observes it and runs full-disconnect handling at
\* once, without the 10 s wait; the later attempts of the player to open a
\* game session for that game are closed with 4000.
C34_LeaveIsFinal == LeaveSetsFull /\ LeftSkipsGrace /\ LeftStaysOut


\* Player u holds a game session that is open and has joined the match.
HoldsSession(u) ==
    \E k \in 1..MaxOpens : sess[<<u, k>>].pc = "open" /\ sess[<<u, k>>].conn

\* C35: a player who holds an open, joined game session and has not sent
\* leave_game is never fully disconnected, however the closes of the
\* player's other sessions (a second tab, the old socket of a reopen) and
\* their grace tasks fall.
C35_OpenSessionKeepsPlayer ==
    \A u \in SessionUsers :
        (HoldsSession(u) /\ ~hist[u].sent_leave) => ~FullyDisconnected(u)


\* C36: once full_disconnect of a player is true it stays true for as long
\* as the hash holds the player's status, whatever calls of
\* set_temp_disconnect and set_restart run at the same time as the
\* set_full_disconnect of the grace task.
C36_FullDisconnectSticks ==
    [][\A u \in SessionUsers :
          (FullyDisconnected(u) /\ u \in DOMAIN kshash'[G0])
          => FullyDisconnected(u)'
      ]_vars


\* C37: the status hash of a game holds fields of the game's players only:
\* an open that connect rejects leaves the hash as it was, so a user who is
\* not a player of the game never gets a status field that all_status_true
\* would count.
C37_OnlyPlayersHaveStatus ==
    \A g \in DOMAIN games :
        \A u \in DOMAIN kshash[g] : u \in PlayerSet(games[g])


\* C38: when the match has been torn down (the engine no longer holds the
\* game) and every handler and woken task has finished, the store holds
\* neither a chat list nor a status hash of the game, whatever way the
\* full-disconnect handlers of the two players interleaved: a later game
\* of the pair starts with an empty chat and default statuses.
C38_NoResidueAfterTeardown ==
    (~HasGame /\ Quiet) => (kschat[G0] = <<>> /\ kshash[G0] = EmptyDict)


\* ============================================================== ready

\* C39: in every state a player who is ready has the whole fleet placed:
\* every count of ships_left[p] is zero -- no place_ships or remove_ship
\* after set_ready leaves a ready player with ships still to place.
C39_ReadyMeansFleetPlaced ==
    HasGame =>
        \A p \in PlayerSet(games[G0]) :
            games[G0].ready[p] =>
                \A l \in ShipLens : games[G0].ships_left[p][l] = 0


\* ======================================================= accepted invites

\* C40: an invite_response with status accepted creates a game only when
\* the invite (from, self) was pending when the response arrived: a
\* response that names a user who has not invited self, or self, creates
\* no game.
C40_GameNeedsInvite ==
    [][\A p \in Pairs :
          (Accepts(p[1], p[2])
           /\ GameIdOf(Sorted2(p[2], p[1])[1], Sorted2(p[2], p[1])[2]) \in DOMAIN games')
          => (lobby[p[1]].found /\ p[1] # p[2])
      ]_vars

====
